---- MODULE Spec2Model ----
(***************************************************************************)
(* Model of the fault-injection harness of src/src/main.rs: the simulated  *)
(* I/O facade (SimulatedIO), the simulated file (SimulatedFile), the       *)
(* virtual clock (SimulatedClock) and the pipeline driver (start, run).    *)
(*                                                                         *)
(* Strings are sequences of symbols.  A symbol is either the newline NL or *)
(* a newline-free run of characters, so the length of a string is its      *)
(* number of symbols and str::lines() is a split at NL.                    *)
(*                                                                         *)
(* The ChaCha8 stream of a seed is a sequence of words.  A word is         *)
(* abstracted to the end of the word range it lies at, 0 for the low end   *)
(* and 1 for the high end: gen_bool(p) is true at the low end, and         *)
(* gen_range(0..n) yields 0 at the low end and n-1 at the high end.        *)
(***************************************************************************)
EXTENDS Integers, Sequences, FiniteSets, TLC

VARIABLES
    pc,               \* position of the driver in main / start / run
    retries,          \* start/run: let mut retries
    delay,            \* start/run: let mut delay (ms)
    counter,          \* run: let mut counter
    written_messages, \* run: let mut written_messages
    kafka_message,    \* run: let kafka_message
    output,           \* run: let output
    rng,              \* SimulatedIO.rng: number of words drawn so far
    kafka_attempts,   \* SimulatedIO.kafka_attempts
    kafka_failures,   \* SimulatedIO.kafka_failures
    file,             \* SimulatedIO.file: Option<SimulatedFile>
    current_time,     \* SimulatedClock.current_time (ms)
    wall,             \* ms spent blocked in tokio::time::sleep
    attempts,         \* history: calls of the operation at this call site
    slept,            \* history: ms passed to io.sleep at this call site
    site_start,       \* history: current_time at the first attempt of the call site
    ev,               \* history: the last facade call and its outcome
    faults,           \* history: faults injected so far
    ok_writes,        \* history: iterations whose write returned Ok
    verifications,    \* history: read_last_n_entries calls made by run
    tape,             \* replay: the words of the seed's stream seen so far
    log,              \* replay: the observations of the current run
    first,            \* replay: the observations of the first run
    pass,             \* replay: 1 = first run, 2 = rerun with the same seed
    probe             \* function-level checks: inputs and results

drv == <<pc, retries, delay, counter, written_messages, kafka_message, output>>
sio == <<rng, kafka_attempts, kafka_failures, file, current_time, wall>>
hist == <<attempts, slept, site_start, ev, faults, ok_writes, verifications>>
replay == <<tape, log, first, pass>>
vars == <<drv, sio, hist, replay, probe>>

----------------------------------------------------------------------------
(* Bounds of the model *)

\* iterations of the work loop a run is followed for
MaxIter == 2
\* faults injected in one run
MaxFaults == 6
\* words of the stream a replayed run may draw
MaxTape == 12

(* Program constants *)

max_retries == 5
base_delay == 10
connect_latency == 50
read_latency == 100
verify_every == 5
tail_n == 5

\* the two ends of the word range
Raw == {0, 1}

----------------------------------------------------------------------------
(* Strings *)

NL == "\n"

\* a simulator built with no canned payload
kafka_messages_none == <<>>

kafka_messages ==
    <<"simulated_message_1", "simulated_message_2", "simulated_message_3">>

config_key == "config_key"

redis_data == [k \in {config_key} |-> "simulated_config_value"]

\* format!("Config: {}, Message: {}\n", redis_config, kafka_message)
Format(redis_config, message) ==
    <<"Config: ", redis_config, ", Message: ", message, NL>>

CR == "\r"

\* str::lines ends a line at "\n" and drops a "\r" that stands before it
ChompCR(line) ==
    IF line # <<>> /\ line[Len(line)] = CR
    THEN SubSeq(line, 1, Len(line) - 1) ELSE line

RECURSIVE SplitLines(_, _, _)
SplitLines(buf, cur, acc) ==
    IF buf = <<>>
    THEN IF cur = <<>> THEN acc ELSE Append(acc, cur)
    ELSE IF Head(buf) = NL
         THEN SplitLines(Tail(buf), <<>>, Append(acc, ChompCR(cur)))
         ELSE SplitLines(Tail(buf), Append(cur, Head(buf)), acc)

\* str::lines(): the newline-free pieces, a final piece only when not empty
Lines(buf) == SplitLines(buf, <<>>, <<>>)

Rev(s) == [i \in 1 .. Len(s) |-> s[Len(s) + 1 - i]]

Take(s, n) == SubSeq(s, 1, IF n < Len(s) THEN n ELSE Len(s))

----------------------------------------------------------------------------
(* PRNG primitives on a word level r *)

\* Bernoulli::sample: word < p_int, the low end
GenBool(r) == r = 0

\* gen_range(0..n): a value in 0..n-1
GenRange(n, r) == r * (n - 1)

FaultType ==
    {"KafkaConnectionFailure", "KafkaReadFailure", "RedisConnectionFailure",
     "RedisReadFailure", "FileOpenFailure", "FileWriteFailure"}

FileFaultType ==
    {"FileReadFailure", "FileWriteFailure", "FileSizeExceededFailure",
     "FileMetadataSyncFailure"}

\* SimulatedIO::should_inject_fault: the table holds every fault type
ShouldInjectFault(fault_type, r) ==
    IF fault_type \in FaultType THEN GenBool(r) ELSE FALSE

\* SimulatedFile::should_inject_fault
FileShouldInjectFault(fault_type, r) ==
    IF fault_type \in FileFaultType THEN GenBool(r) ELSE FALSE

\* SimulatedIO::generate_jitter
GenerateJitter(base, r) == base + GenRange(base, r)

----------------------------------------------------------------------------
(* SimulatedClock *)

ClockNew == 0

\* a clock that is set to the duration instead of advanced by it
AdvanceSet(now, duration) == duration

\* SimulatedClock::advance
Advance(now, duration) == now + duration

----------------------------------------------------------------------------
(* SimulatedFile *)

NoFile == [open |-> FALSE]

\* a file that seeds a PRNG of its own instead of taking the clone
SimulatedFileNewReseeded(rng_clone) ==
    [open |-> TRUE,
     rng |-> 0,
     file_contents |-> <<>>,
     synced_contents |-> <<>>,
     current_file_size |-> 0,
     max_file_size |-> 0,
     read_position |-> 0,
     write_position |-> 0]

\* SimulatedFile::new(rng, io)
SimulatedFileNew(rng_clone) ==
    [open |-> TRUE,
     rng |-> rng_clone,
     file_contents |-> <<>>,
     synced_contents |-> <<>>,
     current_file_size |-> 0,
     max_file_size |-> 0,
     read_position |-> 0,
     write_position |-> 0]

\* dst[at .. at + Len(src)).copy_from_slice(src), the range being inside dst
CopyInto(dst, at, src) ==
    [i \in 1 .. Len(dst) |->
        IF i > at /\ i <= at + Len(src) THEN src[i - at] ELSE dst[i]]

\* a write that refuses a record that would fill the file exactly
FileWriteStrictCap(f, data, r) ==
    LET drawn == [f EXCEPT !.rng = @ + 1]
        write_size == Len(data)
    IN  IF FileShouldInjectFault("FileWriteFailure", r)
        THEN [res |-> "err", n |-> 0, fault |-> TRUE, file |-> drawn]
        ELSE IF f.current_file_size + write_size >= f.max_file_size
        THEN [res |-> "err", n |-> 0, fault |-> FALSE, file |-> drawn]
        ELSE IF f.write_position + write_size > Len(f.file_contents)
        THEN [res |-> "panic", n |-> 0, fault |-> FALSE, file |-> drawn]
        ELSE [res |-> "ok", n |-> write_size, fault |-> FALSE,
              file |-> [drawn EXCEPT
                  !.file_contents = CopyInto(@, f.write_position, data),
                  !.write_position = @ + write_size,
                  !.current_file_size = @ + write_size]]

\* a write that counts the bytes before it tests the size
FileWriteCountsFirst(f, data, r) ==
    LET drawn == [f EXCEPT !.rng = @ + 1]
        write_size == Len(data)
        counted == [drawn EXCEPT !.current_file_size = @ + write_size]
    IN  IF FileShouldInjectFault("FileWriteFailure", r)
        THEN [res |-> "err", n |-> 0, fault |-> TRUE, file |-> drawn]
        ELSE IF counted.current_file_size > f.max_file_size
        THEN [res |-> "err", n |-> 0, fault |-> FALSE, file |-> counted]
        ELSE IF f.write_position + write_size > Len(f.file_contents)
        THEN [res |-> "panic", n |-> 0, fault |-> FALSE, file |-> drawn]
        ELSE [res |-> "ok", n |-> write_size, fault |-> FALSE,
              file |-> [counted EXCEPT
                  !.file_contents = CopyInto(@, f.write_position, data),
                  !.write_position = @ + write_size]]

\* SimulatedFile::write: res is "ok", "err" or "panic" (slice out of range)
FileWrite(f, data, r) ==
    LET drawn == [f EXCEPT !.rng = @ + 1]
        write_size == Len(data)
    IN  IF FileShouldInjectFault("FileWriteFailure", r)
        THEN [res |-> "err", n |-> 0, fault |-> TRUE, file |-> drawn]
        ELSE IF f.current_file_size + write_size > f.max_file_size
        THEN [res |-> "err", n |-> 0, fault |-> FALSE, file |-> drawn]
        ELSE IF f.write_position + write_size > Len(f.file_contents)
        THEN [res |-> "panic", n |-> 0, fault |-> FALSE, file |-> drawn]
        ELSE [res |-> "ok", n |-> write_size, fault |-> FALSE,
              file |-> [drawn EXCEPT
                  !.file_contents = CopyInto(@, f.write_position, data),
                  !.write_position = @ + write_size,
                  !.current_file_size = @ + write_size]]

\* SimulatedFile::read_last_n_entries
FileReadLastNEntries(f, n) == Take(Rev(Lines(f.file_contents)), n)

\* SimulatedFile::fsync
FileFsync(f) == [f EXCEPT !.synced_contents = f.file_contents]

\* SimulatedFile::read: "panic" is the failed assert! or the slice out of range
FileRead(f, size, r) ==
    LET drawn == [f EXCEPT !.rng = @ + 1]
    IN  IF FileShouldInjectFault("FileReadFailure", r)
        THEN [res |-> "err", bytes |-> <<>>, file |-> drawn]
        ELSE IF ~(size < Len(f.file_contents))
        THEN [res |-> "panic", bytes |-> <<>>, file |-> drawn]
        ELSE IF f.read_position + size > Len(f.file_contents)
        THEN [res |-> "panic", bytes |-> <<>>, file |-> drawn]
        ELSE [res |-> "ok",
              bytes |-> SubSeq(f.file_contents, f.read_position + 1,
                               f.read_position + size),
              file |-> [drawn EXCEPT !.read_position = @ + size]]

----------------------------------------------------------------------------
(* SimulatedIO *)

\* a generator seeded from entropy: a stream nobody has seen
SeedFromEntropy == Len(tape)

\* ChaCha8Rng::seed_from_u64(seed): the stream of the seed, from its start
SeedFromU64 == 0

kafka_failures_lo == 1
kafka_failures_hi == 5

\* SimulatedIO::new: kafka_failures = rng.gen_range(1..5)
NewKafkaFailures(r) ==
    kafka_failures_lo + GenRange(kafka_failures_hi - kafka_failures_lo, r)

\* a gate that lets every drawn fault through
KafkaGateOpen(attempt, failures) == TRUE

\* a facade whose jitter does not come from the seeded PRNG
DrawsNoJitter(uses) == Cardinality({i \in 1 .. Len(uses) : uses[i] # "jitter"})

\* the number of times a facade call advances the PRNG: once for the fault
\* draw of should_inject_fault, once for choose, once for the gen_range of
\* generate_jitter
Draws(uses) == Len(uses)

\* create_kafka_consumer: the fault is gated on the attempt number
KafkaGate(attempt, failures) == attempt <= failures

\* read_kafka_message: self.kafka_messages.choose(&mut self.rng)
Choose(messages, r) == messages[1 + GenRange(Len(messages), r)]

\* SimulatedIO::sleep -> SimulatedClock::sleep -> advance
Sleep(now, duration) == Advance(now, duration)

----------------------------------------------------------------------------
(* The driver: start and run *)

Terminal ==
    {"exit_kafka", "exit_redis", "panic_open", "panic_none", "panic_assert",
     "panic_kafka_retries", "panic_redis_retries", "panic_unwrap",
     "panic_slice", "panic_readback", "panic_index", "panic_verify"}

\* a work loop that goes from the broker read straight to the write
SequelSkipsConfig(site) ==
    CASE site = "connect_kafka" -> "connect_redis"
      [] site = "connect_redis" -> "open_file"
      [] site = "open_file" -> "loop"
      [] site = "loop" -> "read_kafka"
      [] site = "read_kafka" -> "write"
      [] site = "get_redis" -> "write"
      [] site = "write" -> "loop"

\* program order of start and run: the statement that follows a call site
\* once its call has succeeded (the write is followed by the loop head
\* whatever it returned)
Sequel(site) ==
    CASE site = "connect_kafka" -> "connect_redis"
      [] site = "connect_redis" -> "open_file"
      [] site = "open_file" -> "loop"
      [] site = "loop" -> "read_kafka"
      [] site = "read_kafka" -> "get_redis"
      [] site = "get_redis" -> "write"
      [] site = "write" -> "loop"

\* a start that leaves the retry loop by break when the retries are used up
GiveUpFallsThrough(site) ==
    CASE site = "connect_kafka" -> "connect_redis"
      [] site = "connect_redis" -> "open_file"

\* start, lines 637-640 and 657-660: the last match arm returns from start
GiveUp(site) ==
    CASE site = "connect_kafka" -> "exit_kafka"
      [] site = "connect_redis" -> "exit_redis"

\* a guard that allows one retry more
CanRetryOnceMore(n) == n <= max_retries

\* the guard of the retrying match arm: Err(_) if retries < max_retries
CanRetry(n) == n < max_retries

\* run: the check after the match of the two retry loops of the work loop
RetriesExhausted(n) == n >= max_retries

NoEvent == [op |-> "none", res |-> "ok", payload |-> "", jitter |-> 0,
            fault |-> FALSE]

Event(op, res, payload, jitter, fault) ==
    [op |-> op, res |-> res, payload |-> payload, jitter |-> jitter,
     fault |-> fault]

\* history of the call site: a site is entered with retries = 0
SiteHistory(d) ==
    /\ attempts' = (IF retries = 0 THEN 1 ELSE attempts + 1)
    /\ slept' = (IF retries = 0 THEN 0 ELSE slept) + d
    /\ site_start' = (IF retries = 0 THEN current_time ELSE site_start)

\* a retrying arm that doubles the delay before it sleeps
BackoffDoublesFirst(r) ==
    LET delay_with_jitter == GenerateJitter(delay * 2, r)
    IN  /\ retries' = retries + 1
        /\ current_time' = Sleep(current_time, delay_with_jitter)
        /\ delay' = delay * 2
        /\ SiteHistory(delay_with_jitter)

\* the retrying arm: retries += 1; sleep(generate_jitter(delay)); delay *= 2
Backoff(r) ==
    LET delay_with_jitter == GenerateJitter(delay, r)
    IN  /\ retries' = retries + 1
        /\ current_time' = Sleep(current_time, delay_with_jitter)
        /\ delay' = delay * 2
        /\ SiteHistory(delay_with_jitter)

\* the next call site starts with retries = 0 and delay = base_delay
NextSite ==
    /\ retries' = 0
    /\ delay' = base_delay
    /\ current_time' = current_time
    /\ SiteHistory(0)

\* an arm that ends the driver
Stop ==
    /\ UNCHANGED <<retries, delay, current_time>>
    /\ SiteHistory(0)

\* run, lines 736-753: the read-back verification after a successful write;
\* read is the result of read_last_n_entries(5)
VerifyOutcome(cnt, written, read) ==
    IF cnt % verify_every # 0 THEN "loop"
    ELSE IF read.res = "err" THEN "panic_readback"
    ELSE IF Len(written) < tail_n THEN "panic_index"
    ELSE IF read.entries # SubSeq(written, Len(written) - tail_n + 1, Len(written))
    THEN "panic_verify"
    ELSE "loop"

\* a driver that records the output whatever the write returned
WrittenAfterAlways(written, out, res) == Append(written, out)

\* run, lines 734-735 and 755-757: the record list after the write
WrittenAfter(written, out, res) ==
    IF res = "ok" THEN Append(written, out) ELSE written

\* main: SimulatedIO::new(seed), then start
Main(r) ==
    /\ pc = "main"
    /\ pc' = "connect_kafka"
    /\ kafka_failures' = NewKafkaFailures(r)
    /\ rng' = SeedFromU64 + 1
    /\ kafka_attempts' = 0
    /\ file' = NoFile
    /\ current_time' = ClockNew
    /\ retries' = 0
    /\ delay' = base_delay
    /\ ev' = Event("new", "ok", "", 0, FALSE)
    /\ UNCHANGED <<counter, written_messages, kafka_message, output, wall,
                   attempts, slept, site_start, faults, ok_writes,
                   verifications>>

\* start, lines 620-641, with SimulatedIO::create_kafka_consumer
CreateKafkaConsumer(r1, r2) ==
    LET attempt == kafka_attempts + 1
        inject == /\ ShouldInjectFault("KafkaConnectionFailure", r1)
                  /\ KafkaGate(attempt, kafka_failures)
    IN  /\ pc = "connect_kafka"
        /\ inject => faults < MaxFaults
        /\ kafka_attempts' = attempt
        /\ faults' = faults + (IF inject THEN 1 ELSE 0)
        /\ IF ~inject
           THEN /\ wall' = wall + connect_latency
                /\ rng' = rng + Draws(<<"fault">>)
                /\ NextSite
                /\ pc' = Sequel(pc)
                /\ ev' = Event("create_kafka_consumer", "ok", "", 0, FALSE)
           ELSE IF CanRetry(retries)
           THEN /\ Backoff(r2)
                /\ rng' = rng + Draws(<<"fault", "jitter">>)
                /\ pc' = pc
                /\ wall' = wall
                /\ ev' = Event("create_kafka_consumer", "err", "",
                               GenerateJitter(delay, r2), TRUE)
           ELSE /\ Stop
                /\ rng' = rng + Draws(<<"fault">>)
                /\ pc' = GiveUp(pc)
                /\ wall' = wall
                /\ ev' = Event("create_kafka_consumer", "err", "", 0, TRUE)
        /\ UNCHANGED <<counter, written_messages, kafka_message, output,
                       kafka_failures, file, ok_writes, verifications>>

\* start, lines 643-661, with SimulatedIO::connect_to_redis
ConnectToRedis(r1, r2) ==
    LET inject == ShouldInjectFault("RedisConnectionFailure", r1)
    IN  /\ pc = "connect_redis"
        /\ inject => faults < MaxFaults
        /\ faults' = faults + (IF inject THEN 1 ELSE 0)
        /\ IF ~inject
           THEN /\ wall' = wall + connect_latency
                /\ rng' = rng + Draws(<<"fault">>)
                /\ NextSite
                /\ pc' = Sequel(pc)
                /\ ev' = Event("connect_to_redis", "ok", "", 0, FALSE)
           ELSE IF CanRetry(retries)
           THEN /\ Backoff(r2)
                /\ rng' = rng + Draws(<<"fault", "jitter">>)
                /\ pc' = pc
                /\ wall' = wall
                /\ ev' = Event("connect_to_redis", "err", "",
                               GenerateJitter(delay, r2), TRUE)
           ELSE /\ Stop
                /\ rng' = rng + Draws(<<"fault">>)
                /\ pc' = GiveUp(pc)
                /\ wall' = wall
                /\ ev' = Event("connect_to_redis", "err", "", 0, TRUE)
        /\ UNCHANGED <<counter, written_messages, kafka_message, output,
                       kafka_attempts, kafka_failures, file, ok_writes,
                       verifications>>

\* start, line 663, with SimulatedIO::open_file: opened is what the
\* underlying tokio::fs open of output.txt returns
OpenFile(opened) ==
    /\ pc = "open_file"
    /\ IF opened
       THEN /\ file' = SimulatedFileNew(rng)
            /\ pc' = Sequel(pc)
            /\ ev' = Event("open_file", "ok", "", 0, FALSE)
       ELSE /\ file' = file
            /\ pc' = "panic_open"
            /\ ev' = Event("open_file", "err", "", 0, FALSE)
    /\ UNCHANGED <<retries, delay, counter, written_messages, kafka_message,
                   output, rng, kafka_attempts, kafka_failures, current_time,
                   wall, attempts, slept, site_start, faults, ok_writes,
                   verifications>>

\* run, lines 671-679: the head of the work loop
IterStart ==
    /\ pc = "loop"
    /\ counter < MaxIter
    /\ counter' = counter + 1
    /\ retries' = 0
    /\ delay' = base_delay
    /\ pc' = Sequel(pc)
    /\ UNCHANGED <<written_messages, kafka_message, output, sio, hist>>

\* run, lines 681-703, with SimulatedIO::read_kafka_message
ReadKafkaMessage(r1, r2) ==
    LET inject == ShouldInjectFault("KafkaReadFailure", r1)
    IN  /\ pc = "read_kafka"
        /\ inject => faults < MaxFaults
        /\ faults' = faults + (IF inject THEN 1 ELSE 0)
        /\ IF ~inject
           THEN /\ wall' = wall + read_latency
                /\ rng' = rng + Draws(<<"fault", "choose">>)
                /\ IF Len(kafka_messages) > 0
                   THEN /\ kafka_message' = Choose(kafka_messages, r2)
                        /\ pc' = Sequel(pc)
                        /\ ev' = Event("read_kafka_message", "ok",
                                       Choose(kafka_messages, r2), 0, FALSE)
                   ELSE /\ kafka_message' = kafka_message
                        /\ pc' = "panic_assert"
                        /\ ev' = Event("read_kafka_message", "panic", "", 0,
                                       FALSE)
                /\ NextSite
           ELSE IF CanRetry(retries)
           THEN /\ Backoff(r2)
                /\ rng' = rng + Draws(<<"fault", "jitter">>)
                /\ pc' = (IF RetriesExhausted(retries')
                          THEN "panic_kafka_retries" ELSE pc)
                /\ wall' = wall
                /\ kafka_message' = kafka_message
                /\ ev' = Event("read_kafka_message", "err", "",
                               GenerateJitter(delay, r2), TRUE)
           ELSE /\ Stop
                /\ rng' = rng + Draws(<<"fault">>)
                /\ pc' = "panic_unwrap"
                /\ wall' = wall
                /\ kafka_message' = kafka_message
                /\ ev' = Event("read_kafka_message", "err", "", 0, TRUE)
        /\ UNCHANGED <<counter, written_messages, output, kafka_attempts,
                       kafka_failures, file, ok_writes, verifications>>

\* run, lines 705-731, with SimulatedIO::get_redis_config
GetRedisConfig(r1, r2) ==
    LET inject == ShouldInjectFault("RedisReadFailure", r1)
    IN  /\ pc = "get_redis"
        /\ inject => faults < MaxFaults
        /\ faults' = faults + (IF inject THEN 1 ELSE 0)
        /\ IF ~inject /\ config_key \in DOMAIN redis_data
           THEN /\ wall' = wall + read_latency
                /\ rng' = rng + Draws(<<"fault">>)
                /\ output' = Format(redis_data[config_key], kafka_message)
                /\ pc' = Sequel(pc)
                /\ NextSite
                /\ ev' = Event("get_redis_config", "ok",
                               redis_data[config_key], 0, FALSE)
           ELSE IF CanRetry(retries)
           THEN /\ Backoff(r2)
                /\ rng' = rng + Draws(<<"fault", "jitter">>)
                /\ pc' = (IF RetriesExhausted(retries')
                          THEN "panic_redis_retries" ELSE pc)
                /\ wall' = wall
                /\ output' = output
                /\ ev' = Event("get_redis_config", "err", "",
                               GenerateJitter(delay, r2), TRUE)
           ELSE /\ Stop
                /\ rng' = rng + Draws(<<"fault">>)
                /\ pc' = "panic_unwrap"
                /\ wall' = wall
                /\ output' = output
                /\ ev' = Event("get_redis_config", "err", "", 0, TRUE)
        /\ UNCHANGED <<counter, written_messages, kafka_message,
                       kafka_attempts, kafka_failures, file, ok_writes,
                       verifications>>

\* run, lines 733-758, with SimulatedFile::write and read_last_n_entries
WriteToFile(w) ==
    LET wr == FileWrite(file, output, w)
        written == WrittenAfter(written_messages, output, wr.res)
        read == [res |-> "ok", entries |-> FileReadLastNEntries(wr.file, tail_n)]
    IN  /\ pc = "write"
        /\ wr.fault => faults < MaxFaults
        /\ faults' = faults + (IF wr.fault THEN 1 ELSE 0)
        /\ file' = wr.file
        /\ ev' = Event("write_to_file", wr.res, "", 0, wr.fault)
        /\ written_messages' = written
        /\ IF wr.res = "ok"
           THEN /\ ok_writes' = ok_writes + 1
                /\ verifications' =
                       verifications + (IF counter % verify_every = 0 THEN 1 ELSE 0)
                /\ pc' = VerifyOutcome(counter, written, read)
           ELSE /\ UNCHANGED <<ok_writes, verifications>>
                /\ pc' = (IF wr.res = "err" THEN Sequel(pc) ELSE "panic_slice")
        /\ UNCHANGED <<retries, delay, counter, kafka_message, output, rng,
                       kafka_attempts, kafka_failures, current_time, wall,
                       attempts, slept, site_start>>

----------------------------------------------------------------------------
(* The simulated run *)

NoProbe == [kind |-> "none"]

\* the state before main has run
Fresh ==
    /\ pc = "main"
    /\ retries = 0
    /\ delay = base_delay
    /\ counter = 0
    /\ written_messages = <<>>
    /\ kafka_message = ""
    /\ output = <<>>
    /\ rng = 0
    /\ kafka_attempts = 0
    /\ kafka_failures = 0
    /\ file = NoFile
    /\ current_time = ClockNew
    /\ wall = 0
    /\ attempts = 0
    /\ slept = 0
    /\ site_start = 0
    /\ ev = NoEvent
    /\ faults = 0
    /\ ok_writes = 0
    /\ verifications = 0
    /\ tape = <<>>
    /\ log = <<>>
    /\ first = <<>>
    /\ pass = 1

Init == Fresh /\ probe = NoProbe

Idle == UNCHANGED <<replay, probe>>

SimMain == (\E r \in Raw : Main(r)) /\ Idle

SimCreateKafkaConsumer ==
    (\E r1, r2 \in Raw : CreateKafkaConsumer(r1, r2)) /\ Idle

SimConnectToRedis == (\E r1, r2 \in Raw : ConnectToRedis(r1, r2)) /\ Idle

SimOpenFile == (\E opened \in BOOLEAN : OpenFile(opened)) /\ Idle

SimIterStart == IterStart /\ Idle

SimReadKafkaMessage == (\E r1, r2 \in Raw : ReadKafkaMessage(r1, r2)) /\ Idle

SimGetRedisConfig == (\E r1, r2 \in Raw : GetRedisConfig(r1, r2)) /\ Idle

SimWriteToFile == (\E w \in Raw : WriteToFile(w)) /\ Idle

Next ==
    \/ SimMain
    \/ SimCreateKafkaConsumer
    \/ SimConnectToRedis
    \/ SimOpenFile
    \/ SimIterStart
    \/ SimReadKafkaMessage
    \/ SimGetRedisConfig
    \/ SimWriteToFile

Spec == Init /\ [][Next]_vars

----------------------------------------------------------------------------
(* Replay: the simulator is run, and run again with the same seed.  The    *)
(* words the first run drew are kept on the tape; a run reads the word at  *)
(* its own position of the stream, the facade at rng and the file at its   *)
(* clone's position, and a word past the end of the tape is a word of the  *)
(* stream nobody has seen yet.                                             *)

\* what an observer of a run sees after a facade call
Observation ==
    [ev |-> ev, pc |-> pc, counter |-> counter, written |-> written_messages,
     contents |-> IF file.open THEN file.file_contents ELSE <<>>]

\* the words <<r1, r2>> and w of a step are those of the seed's stream
FromTape(r1, r2, w) ==
    LET n == IF pc = "main" THEN 1 ELSE rng' - rng
        at == rng' - n
        rs == <<r1, r2>>
        fresh == rng' - Len(tape)
    IN  /\ \A i \in 1 .. n : at + i <= Len(tape) => rs[i] = tape[at + i]
        /\ tape' = IF fresh > 0
                   THEN tape \o [i \in 1 .. fresh |-> rs[n - fresh + i]]
                   ELSE tape
        /\ (file.open /\ file'.rng # file.rng /\ file.rng + 1 <= Len(tape))
               => w = tape[file.rng + 1]

Running ==
    /\ pass = 1 => Len(tape) < MaxTape
    /\ pass = 2 => Len(log) < Len(first)

Recorded(r1, r2, w) ==
    /\ FromTape(r1, r2, w)
    /\ log' = Append(log, Observation')
    /\ UNCHANGED <<first, pass, probe>>

ReplayMain == Running /\ \E r \in Raw : Main(r) /\ Recorded(r, r, r)

ReplayCreateKafkaConsumer ==
    Running /\ \E r1, r2 \in Raw : CreateKafkaConsumer(r1, r2) /\ Recorded(r1, r2, r1)

ReplayConnectToRedis ==
    Running /\ \E r1, r2 \in Raw : ConnectToRedis(r1, r2) /\ Recorded(r1, r2, r1)

ReplayOpenFile ==
    Running /\ \E opened \in BOOLEAN : OpenFile(opened) /\ Recorded(0, 0, 0)

ReplayIterStart ==
    Running /\ IterStart /\ UNCHANGED <<replay, probe>>

ReplayReadKafkaMessage ==
    Running /\ \E r1, r2 \in Raw : ReadKafkaMessage(r1, r2) /\ Recorded(r1, r2, r1)

ReplayGetRedisConfig ==
    Running /\ \E r1, r2 \in Raw : GetRedisConfig(r1, r2) /\ Recorded(r1, r2, r1)

ReplayWriteToFile ==
    Running /\ \E w \in Raw : WriteToFile(w) /\ Recorded(w, w, w)

\* the first run has stopped
Stopped ==
    \/ pc \in Terminal
    \/ Len(tape) >= MaxTape
    \/ pc = "loop" /\ counter >= MaxIter

\* main is started again with the same SEED
Rerun ==
    /\ pass = 1
    /\ Stopped
    /\ pass' = 2
    /\ first' = log
    /\ log' = <<>>
    /\ pc' = "main"
    /\ retries' = 0
    /\ delay' = base_delay
    /\ counter' = 0
    /\ written_messages' = <<>>
    /\ kafka_message' = ""
    /\ output' = <<>>
    /\ rng' = 0
    /\ kafka_attempts' = 0
    /\ kafka_failures' = 0
    /\ file' = NoFile
    /\ current_time' = ClockNew
    /\ wall' = 0
    /\ attempts' = 0
    /\ slept' = 0
    /\ site_start' = 0
    /\ ev' = NoEvent
    /\ faults' = 0
    /\ ok_writes' = 0
    /\ verifications' = 0
    /\ UNCHANGED <<tape, probe>>

NextReplay ==
    \/ ReplayMain
    \/ ReplayCreateKafkaConsumer
    \/ ReplayConnectToRedis
    \/ ReplayOpenFile
    \/ ReplayIterStart
    \/ ReplayReadKafkaMessage
    \/ ReplayGetRedisConfig
    \/ ReplayWriteToFile
    \/ Rerun

SpecReplay == Init /\ [][NextReplay]_vars

\* the file was opened in both runs as far as step i
BothOpened(i) ==
    \A j \in 1 .. i :
        log[j].ev.op = "open_file" \/ first[j].ev.op = "open_file"
            => log[j].ev.res = "ok" /\ first[j].ev.res = "ok"

\* C1: two simulated runs with the same seed agree, call by call, on the
\* outcome of every facade call (success or error, the payload chosen, the
\* jitter slept, the fault injected), on the in-memory record list and on the
\* contents of the simulated file, as long as the underlying file could be
\* opened in both.
C1_Determinism ==
    pass = 2 =>
        \A i \in 1 .. Len(log) :
            (i <= Len(first) /\ BothOpened(i)) => log[i] = first[i]

\* C1 witness: a rerun has replayed a whole run that finished an iteration of
\* the work loop and met an injected fault with a jitter above the base delay.
C1_Witness ==
    /\ pass = 2
    /\ Len(log) = Len(first)
    /\ counter >= 1
    /\ pc = "loop"
    /\ \E i \in 1 .. Len(log) : log[i].ev.fault /\ log[i].ev.jitter > base_delay

----------------------------------------------------------------------------
(* Claims about the simulated run (Spec) *)

\* C3: in a simulated run in which no fault is injected, each write call of
\* iterations 1 to 5 succeeds and is recorded, and the write of iteration 5 is
\* followed by a read-back that lets the driver go on.
C3_HappyRun ==
    (faults = 0 /\ ev.op = "write_to_file" /\ counter <= verify_every)
        => /\ ev.res = "ok"
           /\ Len(written_messages) = counter
           /\ (counter = verify_every => verifications = 1 /\ pc = "loop")

RECURSIVE Pow2(_)
Pow2(i) == IF i = 0 THEN 1 ELSE 2 * Pow2(i - 1)

\* the sum over i = 0 .. r-1 of 2 * base * 2^i
RetryDelayBound(r, base) == 2 * base * (Pow2(r) - 1)

\* C5: at every retry call site at most max_retries + 1 attempts are made and
\* the time slept at the site is at most the sum over i = 0..4 of 2*10*2^i ms.
C5_RetryBound ==
    /\ attempts <= max_retries + 1
    /\ slept <= RetryDelayBound(max_retries, base_delay)

\* C5 witness: a call site where the sixth attempt was made after five sleeps
\* of the longest jitter each.
C5_Witness ==
    /\ attempts = max_retries + 1
    /\ slept = RetryDelayBound(max_retries, base_delay) - max_retries

\* C6: when read_message fails on every attempt of an iteration, the driver
\* exits fatally only after 6 calls of read_message (5 retries and a final
\* attempt), the virtual clock having advanced by the five jittered delays
\* since the first attempt.
C6_ReadExhaustion ==
    (ev.op = "read_kafka_message" /\ pc \in Terminal)
        => /\ attempts = max_retries + 1
           /\ retries = max_retries
           /\ current_time - site_start = slept

\* C7: in simulated mode every create_kafka_consumer attempt whose number
\* exceeds kafka_failures succeeds, so the connect succeeds within
\* kafka_failures + 1 attempts; kafka_failures is in [1,5) and the broker
\* connect never exhausts its retries.
C7_BrokerConnects ==
    /\ pc # "exit_kafka"
    /\ pc # "main" => kafka_failures \in kafka_failures_lo .. (kafka_failures_hi - 1)
    /\ (ev.op = "create_kafka_consumer" /\ ev.res = "err")
           => kafka_attempts <= kafka_failures
    /\ pc = "connect_kafka" => kafka_attempts <= kafka_failures
    /\ pc \notin {"main", "connect_kafka"}
           => kafka_attempts <= kafka_failures + 1 /\ kafka_attempts <= max_retries

\* C7 witness: the broker connect has succeeded at attempt kafka_failures + 1
\* with the largest kafka_failures, after a failure at every earlier attempt.
C7_Witness ==
    /\ pc = "connect_redis"
    /\ kafka_failures = kafka_failures_hi - 1
    /\ kafka_attempts = kafka_failures + 1
    /\ attempts = kafka_attempts

\* C8: the virtual clock starts at zero, no step decreases it, and a sleep (the
\* step of a retrying arm) adds exactly the duration slept to it and blocks
\* for no wall time; no other step moves it.
C8_ClockMonotone ==
    /\ current_time = 0
    /\ [][/\ current_time' >= current_time
          /\ retries' = retries + 1
                 => current_time' = current_time + ev'.jitter /\ wall' = wall
          /\ retries' # retries + 1 => current_time' = current_time]_vars

\* C8 witness: the clock has been advanced by sleeps at two call sites.
C8_Witness ==
    /\ slept > 0
    /\ current_time > slept
    /\ ev.jitter > 0

\* C9: a write that returns an error leaves the in-memory record list as it
\* was, starts no verification and takes the driver to the head of the work
\* loop; the record list holds the records of the successful writes only.
C9_LossyWrite ==
    [][(pc = "write" /\ ev'.op = "write_to_file" /\ ev'.res = "err")
           => /\ written_messages' = written_messages
              /\ Len(written_messages') = ok_writes'
              /\ verifications' = verifications
              /\ counter' = counter
              /\ pc' = "loop"]_vars

\* C9 witness: the driver is in its second iteration, the write of the first
\* having failed.
C9_Witness ==
    /\ counter = 2
    /\ pc = "read_kafka"
    /\ ok_writes = 0
    /\ written_messages = <<>>

\* C10: the counter that triggers the read-back verification counts the
\* iterations whose write succeeded: an iteration whose write fails does not
\* increment it.
C10_CounterCountsWrites ==
    pc = "loop" => counter = ok_writes

----------------------------------------------------------------------------
(* The simulated file on its own: calls of the File trait on the file that
   SimulatedIO::open_file builds (SpecFile) *)

MaxFileOps == 4

\* newline-terminated records handed to write
Records == {Format(redis_data[config_key], kafka_messages[i]) : i \in 1 .. 2}

\* a record without its terminating newline
StripNewline(rec) ==
    IF rec # <<>> /\ rec[Len(rec)] = NL THEN SubSeq(rec, 1, Len(rec) - 1) ELSE rec

StripAll(recs) == [i \in 1 .. Len(recs) |-> StripNewline(recs[i])]

\* the last n elements of s, in the order of s
LastN(s, n) == SubSeq(s, (IF n < Len(s) THEN Len(s) - n ELSE 0) + 1, Len(s))

\* a call on the file and what it returned
Call(op, res, n, data, fault, entries) ==
    [op |-> op, res |-> res, n |-> n, data |-> data, fault |-> fault,
     entries |-> entries]

\* sent: the records passed to a write on which no fault was injected;
\* at_fsync: the buffer as of the last fsync
InitFile ==
    /\ Fresh
    /\ probe = [kind |-> "file", sent |-> <<>>, at_fsync |-> <<>>]
                   @@ Call("open", "ok", 0, <<>>, FALSE, <<>>)

FileCall(call, sent, at_fsync) ==
    /\ probe.kind = "file"
    /\ file.open
    /\ pc = "file_ops"
    /\ probe' = [kind |-> "file", sent |-> sent, at_fsync |-> at_fsync] @@ call
    /\ UNCHANGED <<retries, delay, counter, written_messages, kafka_message,
                   output, rng, kafka_attempts, kafka_failures, current_time,
                   wall, hist, replay>>

\* SimulatedIO::open_file on a fresh SimulatedIO
FileOpen ==
    /\ probe.kind = "file"
    /\ pc = "main"
    /\ pc' = "file_ops"
    /\ file' = SimulatedFileNew(SeedFromU64 + 1)
    /\ UNCHANGED <<retries, delay, counter, written_messages, kafka_message,
                   output, rng, kafka_attempts, kafka_failures, current_time,
                   wall, hist, replay, probe>>

FileOpWrite ==
    \E data \in Records \cup {<<>>}, r \in Raw :
        LET wr == FileWrite(file, data, r)
        IN  /\ pc = "file_ops"
            /\ file.rng < MaxFileOps
            /\ FileCall(Call("write", wr.res, wr.n, data, wr.fault, <<>>),
                        IF wr.fault \/ data \notin Records
                        THEN probe.sent ELSE Append(probe.sent, data),
                        probe.at_fsync)
            /\ file' = wr.file
            /\ pc' = (IF wr.res = "panic" THEN "panic_slice" ELSE pc)

FileOpTail ==
    \E n \in 0 .. MaxFileOps :
        /\ pc = "file_ops"
        /\ FileCall(Call("tail", "ok", n, <<>>, FALSE,
                         FileReadLastNEntries(file, n)),
                    probe.sent, probe.at_fsync)
        /\ UNCHANGED <<file, pc>>

FileOpFsync ==
    /\ pc = "file_ops"
    /\ FileCall(Call("fsync", "ok", 0, <<>>, FALSE, <<>>), probe.sent,
                file.file_contents)
    /\ file' = FileFsync(file)
    /\ UNCHANGED pc

FileOpRead ==
    \E size \in 0 .. 1, r \in Raw :
        LET rd == FileRead(file, size, r)
        IN  /\ pc = "file_ops"
            /\ file.rng < MaxFileOps
            /\ FileCall(Call("read", rd.res, size, rd.bytes,
                             FileShouldInjectFault("FileReadFailure", r), <<>>),
                        probe.sent, probe.at_fsync)
            /\ file' = rd.file
            /\ pc' = (IF rd.res = "panic" THEN "panic_read" ELSE pc)

NextFile ==
    \/ FileOpen
    \/ FileOpWrite
    \/ FileOpTail
    \/ FileOpFsync
    \/ FileOpRead

SpecFile == InitFile /\ [][NextFile]_vars

----------------------------------------------------------------------------
(* The read-back verification of run on its own (SpecVerify) *)

MaxWritten == 5

RECURSIVE SeqsUpTo(_, _)
SeqsUpTo(S, n) ==
    IF n = 0 THEN {<<>>}
    ELSE LET shorter == SeqsUpTo(S, n - 1)
         IN  shorter \cup {Append(q, x) : q \in shorter, x \in S}

RECURSIVE Concat(_)
Concat(recs) == IF recs = <<>> THEN <<>> ELSE Head(recs) \o Concat(Tail(recs))

\* what read_last_n_entries(5) may hand to the comparison when the file holds
\* the records recs: the last five stripped in append order, the result of
\* SimulatedFile::read_last_n_entries, or an error
ReadBacks(recs) ==
    { [res |-> "ok", entries |-> LastN(StripAll(recs), tail_n)],
      [res |-> "ok",
       entries |-> FileReadLastNEntries([file_contents |-> Concat(recs)], tail_n)],
      [res |-> "err", entries |-> <<>>] }

\* the state of run at line 736: counter iterations started, every one of them
\* or only some with a successful write
InitVerify ==
    /\ Fresh
    /\ \E cnt \in 1 .. MaxWritten, written \in SeqsUpTo(Records, MaxWritten) :
         /\ Len(written) <= cnt
         /\ \E read \in ReadBacks(written) :
              probe = [kind |-> "verify", counter |-> cnt, written |-> written,
                       read |-> read, outcome |-> "pending"]

Verify ==
    /\ probe.kind = "verify"
    /\ probe.outcome = "pending"
    /\ probe' = [probe EXCEPT
           !.outcome = VerifyOutcome(probe.counter, probe.written, probe.read)]
    /\ UNCHANGED <<drv, sio, hist, replay>>

NextVerify == Verify

SpecVerify == InitVerify /\ [][NextVerify]_vars

\* C4: at a 5th iteration, if every write reported success and tail_entries(5)
\* returns the last five records in append order with their trailing newline
\* stripped, the comparison with the last five entries of the in-memory list
\* succeeds and the driver goes on with the next iteration.
C4_VerificationSound ==
    (/\ probe.kind = "verify"
     /\ probe.outcome # "pending"
     /\ probe.counter % verify_every = 0
     /\ Len(probe.written) = probe.counter
     /\ probe.read = [res |-> "ok",
                      entries |-> LastN(StripAll(probe.written), tail_n)])
        => probe.outcome = "loop"

----------------------------------------------------------------------------
(* Order of the calls of start and run (Spec) *)

C12_Bootstrap ==
    [][/\ pc \notin Terminal
       /\ pc = "connect_kafka"
              => /\ ev'.op = "create_kafka_consumer"
                 /\ ev.op \in {"new", "create_kafka_consumer"}
       /\ pc = "connect_redis"
              => /\ ev'.op = "connect_to_redis"
                 /\ \/ ev.op = "create_kafka_consumer" /\ ev.res = "ok"
                    \/ ev.op = "connect_to_redis" /\ ev.res = "err"
       /\ pc = "open_file"
              => /\ ev.op = "connect_to_redis" /\ ev.res = "ok"
                 /\ ev'.op = "open_file"
                 /\ pc' = (IF ev'.res = "ok" THEN "loop" ELSE "panic_open")
                 /\ file'.open <=> ev'.res = "ok"
       /\ pc' = "open_file" => pc = "connect_redis"
       /\ (counter = 0 /\ counter' # 0)
              => ev.op = "open_file" /\ ev.res = "ok" /\ file.open
       /\ pc' \in {"exit_kafka", "exit_redis"}
              => /\ ev'.res = "err"
                 /\ attempts' = max_retries + 1
                 /\ retries' = max_retries
                 /\ ~file'.open
                 /\ counter' = 0]_vars

\* C12 witness: the KV connect has failed six times and start has returned.
C12_Witness ==
    /\ pc = "exit_redis"
    /\ attempts = max_retries + 1
    /\ ev.op = "connect_to_redis"
    /\ ~file.open

----------------------------------------------------------------------------
(* RealFile::read_last_n_entries on its own (SpecRealTail).  The file is a
   sequence of bytes; the chunk size is an input of the operator, so that
   chunk boundaries fall at every position of a short file. *)

MaxRecords == 3
MaxChunk == 4

\* newline-terminated records, one symbol a byte
ByteRecords ==
    {<<NL>>, <<"a", NL>>, <<"a", "b", NL>>, <<"b", "b", "a", NL>>}

\* buffer.iter().filter(|&&c| c == b'\n').count()
RECURSIVE CountNewlines(_)
CountNewlines(buffer) ==
    IF buffer = <<>> THEN 0
    ELSE (IF Head(buffer) = NL THEN 1 ELSE 0) + CountNewlines(Tail(buffer))

\* a loop that stops as soon as n newlines are buffered
NeedMoreOffByOne(buffer, n) == CountNewlines(buffer) < n

\* the second conjunct of the while condition, line 194
NeedMore(buffer, n) == CountNewlines(buffer) <= n

\* the while loop, lines 194-208: chunks are read from the end and spliced
\* in front of the buffer
RECURSIVE ReadChunks(_, _, _, _, _)
ReadChunks(content, n, chunk, position, buffer) ==
    IF position > 0 /\ NeedMore(buffer, n)
    THEN LET read_size == IF position < chunk THEN position ELSE chunk
             at == position - read_size
         IN  ReadChunks(content, n, chunk, at,
                        SubSeq(content, at + 1, at + read_size) \o buffer)
    ELSE [position |-> position, buffer |-> buffer]

\* RealFile::read_last_n_entries; io_ok is whether metadata, seek and
\* read_exact all succeed
RealFileReadLastNEntries(content, n, chunk, io_ok) ==
    LET rd == ReadChunks(content, n, chunk, Len(content), <<>>)
    IN  IF ~io_ok
        THEN [res |-> "err", entries |-> <<>>, position |-> Len(content)]
        ELSE [res |-> "ok",
              entries |-> Rev(Take(Rev(Lines(rd.buffer)), n)),
              position |-> rd.position]

InitRealTail ==
    /\ Fresh
    /\ \E recs \in SeqsUpTo(ByteRecords, MaxRecords), n \in 0 .. MaxRecords + 1,
          chunk \in 1 .. MaxChunk, io_ok \in BOOLEAN :
         probe = [kind |-> "real_tail", records |-> recs, n |-> n,
                  chunk |-> chunk, io_ok |-> io_ok, done |-> FALSE,
                  out |-> [res |-> "ok", entries |-> <<>>, position |-> 0]]

RealTail ==
    /\ probe.kind = "real_tail"
    /\ ~probe.done
    /\ probe' = [probe EXCEPT
           !.done = TRUE,
           !.out = RealFileReadLastNEntries(Concat(probe.records), probe.n,
                                            probe.chunk, probe.io_ok)]
    /\ UNCHANGED <<drv, sio, hist, replay>>

NextRealTail == RealTail

SpecRealTail == InitRealTail /\ [][NextRealTail]_vars

----------------------------------------------------------------------------
(* SimulatedFile::read_last_n_entries on its own (SpecSimTail): the buffer
   holds the bytes of a sequence of records *)

InitSimTail ==
    /\ Fresh
    /\ \E recs \in SeqsUpTo(ByteRecords, MaxRecords), n \in 0 .. MaxRecords + 1 :
         probe = [kind |-> "sim_tail", records |-> recs, n |-> n,
                  done |-> FALSE, entries |-> <<>>]

SimTail ==
    /\ probe.kind = "sim_tail"
    /\ ~probe.done
    /\ probe' = [probe EXCEPT
           !.done = TRUE,
           !.entries = FileReadLastNEntries(
                           [file_contents |-> Concat(probe.records)], probe.n)]
    /\ UNCHANGED <<drv, sio, hist, replay>>

NextSimTail == SimTail

SpecSimTail == InitSimTail /\ [][NextSimTail]_vars

\* C14: for a buffer made of m newline-terminated records and every n,
\* SimulatedFile::read_last_n_entries(n) returns the last min(n, m) records
\* in append order, the oldest of them first; all of them when m < n.
C14_SimTail ==
    (probe.kind = "sim_tail" /\ probe.done)
        => probe.entries = LastN(StripAll(probe.records), probe.n)

----------------------------------------------------------------------------
(* Claims about the calls on the simulated file (SpecFile) *)

\* the fields of the file that a call on it may change, the PRNG apart
FileData(f) ==
    <<f.file_contents, f.synced_contents, f.current_file_size,
      f.read_position, f.write_position>>

\* C15: SimulatedFile::write(s) returns FileWriteError exactly when a fault
\* is injected or current_file_size + |s| > max_file_size; otherwise it
\* returns |s|, the buffer is the old buffer followed by s, and the write
\* cursor and current_file_size have grown by |s|; a failed write leaves the
\* buffer, the cursors and current_file_size as they were.
C15_WriteOutcome ==
    [][(pc = "file_ops" /\ probe'.op = "write" /\ file'.rng = file.rng + 1)
           => LET size == Len(probe'.data)
              IN  /\ probe'.res \in {"ok", "err"}
                  /\ probe'.res = "err"
                         <=> \/ probe'.fault
                             \/ file.current_file_size + size > file.max_file_size
                  /\ probe'.res = "ok"
                         => /\ probe'.n = size
                            /\ file'.file_contents = file.file_contents \o probe'.data
                            /\ file'.write_position = file.write_position + size
                            /\ file'.current_file_size = file.current_file_size + size
                  /\ probe'.res = "err" => FileData(file') = FileData(file)]_vars

\* C15 witness: a write has succeeded after a write that failed on the size
\* test with no fault injected.
C15_Witness ==
    /\ probe.kind = "file"
    /\ probe.op = "write"
    /\ probe.res = "ok"
    /\ ~probe.fault
    /\ Len(probe.sent) >= 1

\* C16: SimulatedFile::read(n) returns the error FileReadError, not an abort,
\* when a fault is injected or n is at least the buffer length; otherwise it
\* returns the n bytes at the read cursor.
C16_ReadOutcome ==
    (probe.kind = "file" /\ probe.op = "read")
        => IF probe.fault \/ probe.n >= Len(file.file_contents)
           THEN probe.res = "err"
           ELSE probe.res = "ok" /\ Len(probe.data) = probe.n

IsPrefix(p, q) == Len(p) <= Len(q) /\ SubSeq(q, 1, Len(p)) = p

\* C17: after any sequence of open, write, read and fsync on the simulated
\* file, current_file_size is the length of file_contents and
\* synced_contents is a prefix of file_contents, equal to file_contents as
\* of the last fsync.
C17_FileInvariant ==
    (probe.kind = "file" /\ file.open)
        => /\ file.current_file_size = Len(file.file_contents)
           /\ IsPrefix(file.synced_contents, file.file_contents)
           /\ file.synced_contents = probe.at_fsync

\* C17 witness: an fsync after a write of a record on which no fault was
\* injected and two further calls that drew from the PRNG.
C17_Witness ==
    /\ probe.kind = "file"
    /\ probe.op = "fsync"
    /\ Len(probe.sent) >= 1
    /\ file.rng >= SeedFromU64 + 4

----------------------------------------------------------------------------
(* Claims about the draws from the PRNG *)

\* C18: in simulated mode open_file draws the FileOpenFailure fault from the
\* facade PRNG before it opens the underlying file, and returns
\* FileOpenError without replacing the file state when the draw fires.
C18_OpenInjects ==
    [][pc = "open_file"
           => /\ rng' = rng + 1
              /\ ev'.fault => ev'.res = "err" /\ file' = file]_vars

\* The simulated run with the PRNG position and the fault count at the head
\* of the current iteration, and the draws of the iteration before it
\* (SpecIter)
InitIter ==
    /\ Fresh
    /\ probe = [kind |-> "iter", head_rng |-> 0, head_faults |-> 0,
                prev |-> <<>>]

TrackIterStart ==
    /\ IterStart
    /\ probe' = [probe EXCEPT
           !.head_rng = rng,
           !.head_faults = faults,
           !.prev = IF counter >= 1 THEN <<rng - probe.head_rng>> ELSE <<>>]
    /\ UNCHANGED replay

NextIter ==
    \/ SimMain
    \/ SimCreateKafkaConsumer
    \/ SimConnectToRedis
    \/ SimOpenFile
    \/ TrackIterStart
    \/ SimReadKafkaMessage
    \/ SimGetRedisConfig
    \/ SimWriteToFile

SpecIter == InitIter /\ [][NextIter]_vars

\* C19: the facade PRNG is advanced the same number of times in every
\* iteration of the work loop, whatever faults are injected in it.
C19_FixedDraws ==
    (probe.kind = "iter" /\ pc = "write" /\ probe.prev # <<>>)
        => rng - probe.head_rng = probe.prev[1]

\* C19 as amended: the facade PRNG is advanced only by SimulatedIO::new and
\* by the facade calls that draw a fault, a payload or a jitter, and an
\* iteration that reaches its write has advanced it 3 times plus 2 times for
\* every failed attempt of read_message or get_config in it.
C19_DrawsFollowFaults ==
    /\ [](probe.kind = "iter" /\ pc = "write"
              => rng - probe.head_rng = 3 + 2 * (faults - probe.head_faults))
    /\ [][rng' # rng => pc \in {"main", "connect_kafka", "connect_redis",
                                "read_kafka", "get_redis"}]_vars

\* C19 witness: the second iteration has reached its write after two failed
\* attempts, the first iteration having drawn three times.
C19_Witness ==
    /\ probe.kind = "iter"
    /\ pc = "write"
    /\ counter = 2
    /\ probe.prev = <<3>>
    /\ faults - probe.head_faults = 2
    /\ rng - probe.head_rng = 7

\* C20: the simulated file draws from a copy of the facade PRNG taken at
\* open time: the copy starts at the position of the facade PRNG, a call on
\* the file advances the copy and leaves the facade PRNG where it was, and a
\* facade call leaves the copy where it was.
C20_FileDrawsApart ==
    [][/\ (pc = "open_file" /\ file'.open) => file'.rng = rng /\ rng' = rng
       /\ pc = "write" => rng' = rng /\ file'.rng = file.rng + 1
       /\ (file.open /\ pc # "write") => file'.rng = file.rng]_vars

\* C20 witness: two iterations are through, the only fault of the run was
\* drawn by the file, and the facade has drawn three times per iteration
\* since the file was opened.
C20_Witness ==
    /\ pc = "loop"
    /\ counter = 2
    /\ file.open
    /\ ev.op = "write_to_file"
    /\ ev.fault
    /\ faults = 1
    /\ rng - (file.rng - counter) = 3 * counter

----------------------------------------------------------------------------
(* Claims about the retry schedule and the latencies (Spec) *)

RetrySites == {"connect_kafka", "connect_redis", "read_kafka", "get_redis"}

\* C21: a retry call site is entered with retries = 0 and delay = 10 ms; the
\* k-th failure with retries < 5 increments retries, sleeps a time in
\* [10 * 2^(k-1), 2 * 10 * 2^(k-1)) on the virtual clock and doubles delay
\* before the next attempt; a successful attempt sleeps no more.
C21_RetrySchedule ==
    /\ [](delay = base_delay * Pow2(retries) /\ retries <= max_retries)
    /\ [][/\ (pc' \in RetrySites /\ pc' # pc)
                 => retries' = 0 /\ delay' = base_delay
          /\ (pc \in RetrySites /\ ev'.res = "err" /\ retries < max_retries)
                 => /\ retries' = retries + 1
                    /\ current_time' - current_time >= base_delay * Pow2(retries' - 1)
                    /\ current_time' - current_time < 2 * base_delay * Pow2(retries' - 1)
                    /\ delay' = 2 * delay
                    /\ attempts' = retries'
          /\ (pc \in RetrySites /\ ev'.res = "ok")
                 => current_time' = current_time /\ pc' # pc]_vars

\* C21 witness: the config read of the second iteration has failed three
\* times, the third sleep being the longest that jitter(40) allows.
C21_Witness ==
    /\ pc = "get_redis"
    /\ counter = 2
    /\ retries = 3
    /\ delay = 80
    /\ ev.jitter = 79

\* the nominal delay of a successful call at a site
Latency(site) ==
    IF site \in {"connect_kafka", "connect_redis"}
    THEN connect_latency ELSE read_latency

\* C22: in simulated mode the nominal delay of a successful connect_broker,
\* connect_kv, read_message or get_config is added to the virtual clock, and
\* the call waits for no wall-clock time.
C22_LatencyOnVirtualClock ==
    [][(pc \in RetrySites /\ ev'.res = "ok")
           => /\ current_time' = current_time + Latency(pc)
              /\ wall' = wall]_vars

\* C23: every SimulatedIO::read_kafka_message call returns the error of an
\* injected fault or Some(p) with p one of the canned payloads; its assert
\* on the payload list never fails and the Ok(None) arm of the driver is
\* never taken.
C23_NeverEmptySuccess ==
    /\ pc \notin {"panic_none", "panic_assert"}
    /\ ev.op = "read_kafka_message"
           => \/ ev.res = "err" /\ ev.fault
              \/ /\ ev.res = "ok"
                 /\ ~ev.fault
                 /\ \E i \in 1 .. Len(kafka_messages) : ev.payload = kafka_messages[i]
                 /\ kafka_message = ev.payload

\* C23 witness: the read of the second iteration has returned the last
\* canned payload after a failed attempt.
C23_Witness ==
    /\ ev.op = "read_kafka_message"
    /\ ev.res = "ok"
    /\ ev.payload = kafka_messages[Len(kafka_messages)]
    /\ counter = 2
    /\ attempts = 2

----------------------------------------------------------------------------
(* RealIO::create_kafka_consumer and RealIO::read_kafka_message
   (SpecRealRead): what the consumer's stream hands over is an input *)

MaxReads == 3

BadByte == "\\xFF"
Replacement == "\\u{FFFD}"

\* String::from_utf8_lossy: a byte that is no UTF-8 is replaced
Utf8Lossy(bytes) ==
    [i \in 1 .. Len(bytes) |-> IF bytes[i] = BadByte THEN Replacement ELSE bytes[i]]

\* consumer.stream().next().await: the stream has ended, a client-side error,
\* or a message delivered with or without a payload
StreamItems ==
    {[kind |-> "end"], [kind |-> "error"], [kind |-> "message", payload |-> <<>>,
      has_payload |-> FALSE]}
        \cup {[kind |-> "message", payload |-> p, has_payload |-> TRUE] :
                  p \in SeqsUpTo({"a", "b", BadByte}, 3)}

\* RealIO::read_kafka_message
RealReadKafkaMessage(consumer, item) ==
    IF ~consumer
    THEN [res |-> "none", payload |-> <<>>]
    ELSE IF item.kind = "message"
         THEN IF item.has_payload
              THEN [res |-> "some", payload |-> Utf8Lossy(item.payload)]
              ELSE [res |-> "none", payload |-> <<>>]
         ELSE [res |-> "NoKafkaMessage", payload |-> <<>>]

InitRealRead ==
    /\ Fresh
    /\ probe = [kind |-> "real_read", consumer |-> FALSE, reads |-> 0,
                item |-> [kind |-> "end"],
                out |-> [res |-> "none", payload |-> <<>>]]

\* start: the broker connect; run is entered only once it has succeeded
RealCreateKafkaConsumer ==
    /\ probe.kind = "real_read"
    /\ ~probe.consumer
    /\ \E created \in BOOLEAN : probe' = [probe EXCEPT !.consumer = created]
    /\ UNCHANGED <<drv, sio, hist, replay>>

RealRead ==
    /\ probe.kind = "real_read"
    /\ probe.consumer
    /\ probe.reads < MaxReads
    /\ \E item \in StreamItems :
         probe' = [probe EXCEPT
             !.reads = @ + 1,
             !.item = item,
             !.out = RealReadKafkaMessage(probe.consumer, item)]
    /\ UNCHANGED <<drv, sio, hist, replay>>

NextRealRead ==
    \/ RealCreateKafkaConsumer
    \/ RealRead

SpecRealRead == InitRealRead /\ [][NextRealRead]_vars

\* C24: RealIO::read_kafka_message returns Ok(None) only when the stream has
\* ended, returns NoKafkaMessage for every client-side error, and returns a
\* delivered message as Some(payload).
C24_RealReadMapping ==
    (probe.kind = "real_read" /\ probe.reads > 0)
        => /\ probe.out.res = "none" => probe.item.kind = "end"
           /\ probe.item.kind = "error" => probe.out.res = "NoKafkaMessage"
           /\ probe.item.kind = "message" => probe.out.res = "some"

----------------------------------------------------------------------------
(* run on RealIO (SpecRealRun): the file is a real file, a write succeeds or
   meets an I/O error, and a read needs a handle that was opened for reading.
   The connects, read_message and get_config are taken to have succeeded. *)

MaxRealIter == 5

chunk_size == 1024

\* tokio::fs::OpenOptions::new().create(true).write(true).append(true)
RealOpenOptions == [create |-> TRUE, write |-> TRUE, append |-> TRUE, read |-> FALSE]

NoCheck == [made |-> FALSE, len |-> 0, res |-> "ok", size |-> 0]

InitRealRun ==
    /\ Fresh
    /\ probe = [kind |-> "real_run", handle |-> [open |-> FALSE],
                content |-> <<>>, check |-> NoCheck]

\* start on RealIO up to open_file(..).unwrap()
RealOpenFile ==
    /\ probe.kind = "real_run"
    /\ pc = "main"
    /\ \E opened \in BOOLEAN :
         IF opened
         THEN /\ probe' = [probe EXCEPT !.handle = [open |-> TRUE] @@ RealOpenOptions]
              /\ pc' = Sequel("open_file")
         ELSE /\ probe' = probe
              /\ pc' = "panic_open"
    /\ UNCHANGED <<retries, delay, counter, written_messages, kafka_message,
                   output, sio, hist, replay>>

\* run, lines 671-731 with every call succeeding: a payload arrives and the
\* record is formatted
RealIterate ==
    /\ probe.kind = "real_run"
    /\ pc = "loop"
    /\ counter < MaxRealIter
    /\ counter' = counter + 1
    /\ \E i \in 1 .. 2 :
         /\ kafka_message' = kafka_messages[i]
         /\ output' = Format(redis_data[config_key], kafka_messages[i])
    /\ pc' = "write"
    /\ UNCHANGED <<retries, delay, written_messages, sio, hist, replay, probe>>

\* read_exact on the handle: the descriptor must be open for reading
CanRead(handle) == handle.read

\* run, lines 733-758, with RealFile::write and RealFile::read_last_n_entries:
\* wrote is whether the write meets no I/O error
RealWriteToFile ==
    \E wrote \in BOOLEAN :
        LET res == IF wrote /\ probe.handle.write THEN "ok" ELSE "err"
            content == IF res = "ok" THEN probe.content \o output ELSE probe.content
            written == WrittenAfter(written_messages, output, res)
            read == RealFileReadLastNEntries(content, tail_n, chunk_size,
                        CanRead(probe.handle) \/ content = <<>>)
            checks == res = "ok" /\ counter % verify_every = 0
        IN  /\ probe.kind = "real_run"
            /\ pc = "write"
            /\ written_messages' = written
            /\ probe' = [probe EXCEPT
                   !.content = content,
                   !.check = IF checks
                             THEN [made |-> TRUE, len |-> Len(written),
                                   res |-> read.res, size |-> Len(content)]
                             ELSE @]
            /\ pc' = IF res = "ok"
                     THEN VerifyOutcome(counter, written,
                                        [res |-> read.res, entries |-> read.entries])
                     ELSE Sequel(pc)
            /\ UNCHANGED <<retries, delay, counter, kafka_message, output, sio,
                           hist, replay>>

NextRealRun ==
    \/ RealOpenFile
    \/ RealIterate
    \/ RealWriteToFile

SpecRealRun == InitRealRun /\ [][NextRealRun]_vars

\* C25: whenever the driver performs the read-back verification (counter
\* divisible by 5 and the write of the iteration succeeded), the in-memory
\* record list holds at least 5 entries, whatever writes failed before.
C25_EnoughRecords ==
    (probe.kind = "real_run" /\ probe.check.made)
        => probe.check.len >= tail_n /\ pc # "panic_index"

\* C26: after RealIO::open_file has succeeded and records have been written
\* through the handle, read_last_n_entries on the same handle performs its
\* seeks and reads: the read-back of a non-empty file does not fail for the
\* access mode alone.
C26_ReadBackPossible ==
    (probe.kind = "real_run" /\ probe.check.made /\ probe.check.size > 0)
        => probe.check.res = "ok" /\ pc # "panic_readback"


----------------------------------------------------------------------------
(* The dashboard (tui.rs): App and its event loop App::run (SpecApp).
   init_components and run_simulation_step are calls into the crate; a call
   returns Ok(faults) or Err(e), and the loop is modelled for every return. *)

MaxSteps == 3

fault_log_cap == 20
status_log_cap == 50
fault_age_limit == 10
U8Max == 255

None == [some |-> FALSE]

Some(x) == [some |-> TRUE, value |-> x]

\* the fault values the dashboard distinguishes (impl FaultType)
LoggedFaults ==
    {"KafkaConnectionFailure", "RedisConnectionFailure", "KafkaReadFailure",
     "RedisReadFailure", "FileOpenFailure", "FileReadFailure", "FileWriteFailure",
     "FileSizeExceededFailure", "FileMetadataSyncFailure"}

\* FaultType::to_log_message
ToLogMessage(fault) ==
    CASE fault = "KafkaConnectionFailure" -> "Kafka connection failed"
      [] fault = "RedisConnectionFailure" -> "Redis connection failed"
      [] fault = "KafkaReadFailure" -> "Kafka read failed"
      [] fault = "RedisReadFailure" -> "Redis read failed"
      [] fault = "FileOpenFailure" -> "File open failed"
      [] fault = "FileReadFailure" -> "File read failed"
      [] fault = "FileWriteFailure" -> "File write failed"
      [] fault = "FileSizeExceededFailure" -> "File size exceeded"
      [] fault = "FileMetadataSyncFailure" -> "File metadata sync failed"

\* #[derive(Default)] struct App
AppDefault ==
    [state |-> "StartScreen", active_faults |-> <<>>, fault_log |-> <<>>,
     status_log |-> <<>>, status_log_counter |-> 0, tick_count |-> 0,
     death_reason |-> None]

\* a log that drops the entry just pushed when it is full
AddFaultKeepsOldest(app, fault) ==
    LET pushed == Append(app.fault_log, ToLogMessage(fault))
    IN  [app EXCEPT !.active_faults = Append(@, <<fault, 0>>),
                    !.fault_log = Take(pushed, fault_log_cap)]

\* App::add_fault
AddFault(app, fault) ==
    LET pushed == Append(app.fault_log, ToLogMessage(fault))
    IN  [app EXCEPT !.active_faults = Append(@, <<fault, 0>>),
                    !.fault_log = IF Len(pushed) > fault_log_cap
                                  THEN Tail(pushed) ELSE pushed]

RECURSIVE AddFaults(_, _)
\* for fault in faults { self.add_fault(fault) }
AddFaults(app, list) ==
    IF list = <<>> THEN app
    ELSE AddFaults(AddFault(app, Head(list)), Tail(list))

RECURSIVE PopWhileOver(_, _)
\* while self.status_log.len() > 50 { self.status_log.pop_front() }
PopWhileOver(q, cap) ==
    IF Len(q) > cap THEN PopWhileOver(Tail(q), cap) ELSE q

\* format!("[{}] text", n) for the three messages of one call
StatusMessages(n, texts) == [i \in 1 .. 3 |-> <<n + i - 1, texts[i]>>]

ConnectionTexts ==
    <<"Connected to Kafka", "Connected to Redis", "Opened file descriptor">>

StepTexts ==
    <<"Read messages from Kafka", "Read messages from Redis", "Wrote output to file">>

\* App::add_connection_status_messages
AddConnectionStatusMessages(app) ==
    LET messages == StatusMessages(app.status_log_counter, ConnectionTexts)
    IN  [app EXCEPT !.status_log = PopWhileOver(@ \o messages, status_log_cap),
                    !.status_log_counter = @ + 3]

\* App::add_status_messages
AddStatusMessages(app) ==
    LET messages == StatusMessages(app.status_log_counter, StepTexts)
    IN  [app EXCEPT !.status_log = PopWhileOver(@ \o messages, status_log_cap),
                    !.status_log_counter = @ + 3]

\* u8::saturating_add(1)
SaturatingAdd(pos) == IF pos < U8Max THEN pos + 1 ELSE U8Max

RECURSIVE PopExpired(_)
\* while front().map_or(false, |(_, pos)| *pos >= 10) { pop_front() }
PopExpired(q) ==
    IF q # <<>> /\ Head(q)[2] >= fault_age_limit THEN PopExpired(Tail(q)) ELSE q

\* App::tick (tick_count wraps at 2^64, beyond every run considered)
Tick(app) ==
    LET aged == [i \in 1 .. Len(app.active_faults) |->
                    <<app.active_faults[i][1], SaturatingAdd(app.active_faults[i][2])>>]
    IN  [app EXCEPT !.tick_count = @ + 1,
                    !.active_faults = PopExpired(aged)]

Keys == {"Enter", "q", "x", "Esc"}

\* App::run, lines 203-227: the state after a key and whether the loop breaks
AfterKey(state, key) ==
    CASE state = "StartScreen" /\ key = "Enter" -> [state |-> "Running", brk |-> FALSE]
      [] state = "StartScreen" /\ key \in {"q", "x"} -> [state |-> state, brk |-> TRUE]
      [] state = "Running" /\ key = "q" -> [state |-> state, brk |-> TRUE]
      [] state = "GameOver" /\ key = "Enter" -> [state |-> state, brk |-> TRUE]
      [] OTHER -> [state |-> state, brk |-> FALSE]

\* a dashboard that enters GameOver without recording the reason
FailedNoReason(app, e) == [app EXCEPT !.state = "GameOver"]

\* App::run, lines 242-243 and 262-263
Failed(app, e) ==
    [app EXCEPT !.death_reason = Some(e), !.state = "GameOver"]

\* what init_components and run_simulation_step may return
FaultLists ==
    {<<>>, <<"KafkaReadFailure">>, <<"RedisReadFailure", "FileWriteFailure">>}

Errs == {"KafkaConnectionError", "FileWriteError"}

Returns == {[ok |-> TRUE, faults |-> fl] : fl \in FaultLists}
               \cup {[ok |-> FALSE, e |-> e] : e \in Errs}

NoCall == [made |-> FALSE]

InitApp ==
    /\ Fresh
    /\ probe = [kind |-> "app", app |-> AppDefault, has_initialised |-> FALSE,
                exited |-> FALSE, inits |-> 0, inits_ok |-> 0, steps |-> 0,
                step |-> NoCall, drawn_over |-> FALSE]

\* one iteration of the loop of App::run: key is the key event polled (or
\* "none"), init and step are what the two calls return if they are made,
\* elapsed is whether the tick rate has passed
RunLoop ==
    \E key \in Keys \cup {"none"}, init \in Returns, step \in Returns,
       elapsed \in BOOLEAN :
        LET keyed == AfterKey(probe.app.state, key)
            app0 == [probe.app EXCEPT !.state = keyed.state]
            runs == ~keyed.brk /\ app0.state = "Running"
            inits == runs /\ ~probe.has_initialised
            init_failed == inits /\ ~init.ok
            app1 == IF ~inits THEN app0
                    ELSE IF init.ok
                         THEN AddConnectionStatusMessages(AddFaults(app0, init.faults))
                         ELSE Failed(app0, init.e)
            has_init == probe.has_initialised \/ (inits /\ init.ok)
            steps == runs /\ ~init_failed
            app2 == IF ~steps THEN app1
                    ELSE IF step.ok
                         THEN AddStatusMessages(AddFaults(app1, step.faults))
                         ELSE Failed(app1, step.e)
            app3 == IF steps /\ elapsed THEN Tick(app2) ELSE app2
        IN  /\ probe.kind = "app"
            /\ ~probe.exited
            /\ steps => probe.steps < MaxSteps
            /\ probe' = [probe EXCEPT
                   !.app = app3,
                   !.has_initialised = has_init,
                   !.exited = keyed.brk \/ init_failed,
                   !.inits = IF inits THEN @ + 1 ELSE @,
                   !.inits_ok = IF inits /\ init.ok THEN @ + 1 ELSE @,
                   !.steps = IF steps THEN @ + 1 ELSE @,
                   !.step = IF steps
                            THEN [made |-> TRUE, state |-> app1.state,
                                  has_initialised |-> has_init]
                            ELSE @,
                   !.drawn_over = @ \/ (probe.app.state = "GameOver" /\ ~keyed.brk)]
            /\ UNCHANGED <<drv, sio, hist, replay>>

NextApp == RunLoop

SpecApp == InitApp /\ [][NextApp]_vars

\* C27: once the App is in GameOver it never returns to StartScreen or
\* Running and neither run_simulation_step nor init_components is executed
\* again; death_reason is set in every state where the App is in GameOver;
\* a simulation step runs only in state Running and only after
\* init_components has succeeded once.
C27_GameOverFinal ==
    /\ [](probe.app.state = "GameOver" => probe.app.death_reason.some)
    /\ [][/\ probe.app.state = "GameOver"
               => /\ probe'.app.state = "GameOver"
                  /\ probe'.steps = probe.steps
                  /\ probe'.inits = probe.inits
          /\ probe'.steps # probe.steps
               => /\ probe'.step.state = "Running"
                  /\ probe'.step.has_initialised
                  /\ probe'.inits_ok = 1]_vars

C27_Witness ==
    /\ probe.kind = "app"
    /\ probe.app.state = "GameOver"
    /\ probe.steps >= 2
    /\ probe.drawn_over
    /\ ~probe.exited


----------------------------------------------------------------------------
(* The log operations of App called in any order (SpecLogs). A run is given
   a budget of calls per operation; the budgets cover a long run that fills
   both logs and lets a fault expire, a run of status calls only, and a short
   run in which the four operations interleave freely. *)

MaxAdds == 21
MaxStatusCalls == 17
MaxTicks == 10

Budgets ==
    {[add_fault |-> MaxAdds, conn |-> 0, status |-> MaxStatusCalls,
      tick |-> MaxTicks, active |-> 1, free |-> FALSE],
     [add_fault |-> 0, conn |-> 2, status |-> MaxStatusCalls,
      tick |-> 0, active |-> 0, free |-> FALSE],
     [add_fault |-> 3, conn |-> 1, status |-> 2,
      tick |-> MaxTicks + 1, active |-> 3, free |-> TRUE]}

FaultSeq ==
    <<"KafkaConnectionFailure", "RedisConnectionFailure", "KafkaReadFailure",
      "RedisReadFailure", "FileOpenFailure", "FileReadFailure", "FileWriteFailure",
      "FileSizeExceededFailure", "FileMetadataSyncFailure">>

\* the faults a call of add_fault may be given: any of two kinds in a short
\* run, the next kind of a rotation through all kinds in a long one
Offered(budget, start, n) ==
    IF budget.free THEN {"KafkaReadFailure", "FileWriteFailure"}
    ELSE {FaultSeq[((start + n) % Len(FaultSeq)) + 1]}

NoCalls == [add_fault |-> 0, conn |-> 0, status |-> 0, tick |-> 0]

InitLogs ==
    /\ Fresh
    /\ \E budget \in Budgets, start \in 0 .. 1 :
         probe = [kind |-> "logs", app |-> AppDefault, budget |-> budget,
                  start |-> start, calls |-> NoCalls, last |-> "new",
                  fault_hist |-> <<>>, status_hist |-> <<>>, expired |-> 0]

CallAddFault ==
    /\ probe.kind = "logs"
    /\ probe.calls.add_fault < probe.budget.add_fault
    /\ \E fault \in Offered(probe.budget, probe.start, probe.calls.add_fault) :
         probe' = [probe EXCEPT
             !.app = AddFault(@, fault),
             !.calls.add_fault = @ + 1,
             !.last = "add_fault",
             !.fault_hist = Append(@, ToLogMessage(fault))]
    /\ UNCHANGED <<drv, sio, hist, replay>>

CallAddConnectionStatusMessages ==
    /\ probe.kind = "logs"
    /\ probe.calls.conn < probe.budget.conn
    /\ probe' = [probe EXCEPT
           !.app = AddConnectionStatusMessages(@),
           !.calls.conn = @ + 1,
           !.last = "add_connection_status_messages",
           !.status_hist = @ \o StatusMessages(probe.app.status_log_counter,
                                               ConnectionTexts)]
    /\ UNCHANGED <<drv, sio, hist, replay>>

CallAddStatusMessages ==
    /\ probe.kind = "logs"
    /\ probe.calls.status < probe.budget.status
    /\ probe' = [probe EXCEPT
           !.app = AddStatusMessages(@),
           !.calls.status = @ + 1,
           !.last = "add_status_messages",
           !.status_hist = @ \o StatusMessages(probe.app.status_log_counter,
                                               StepTexts)]
    /\ UNCHANGED <<drv, sio, hist, replay>>

CallTick ==
    /\ probe.kind = "logs"
    /\ probe.calls.tick < probe.budget.tick
    /\ Len(probe.app.active_faults) <= probe.budget.active
    /\ probe' = [probe EXCEPT
           !.app = Tick(@),
           !.calls.tick = @ + 1,
           !.last = "tick",
           !.expired = @ + Len(probe.app.active_faults)
                         - Len(Tick(probe.app).active_faults)]
    /\ UNCHANGED <<drv, sio, hist, replay>>

NextLogs ==
    \/ CallAddFault
    \/ CallAddConnectionStatusMessages
    \/ CallAddStatusMessages
    \/ CallTick

SpecLogs == InitLogs /\ [][NextLogs]_vars

\* C28: after any sequence of add_fault, add_connection_status_messages,
\* add_status_messages and tick calls fault_log holds at most 20 entries and
\* status_log at most 50, the retained entries being the most recent ones in
\* insertion order; after a tick no entry of active_faults has an age of 10
\* or more.
C28_LogsBounded ==
    probe.kind = "logs"
        => /\ Len(probe.app.fault_log) <= 20
           /\ Len(probe.app.status_log) <= 50
           /\ probe.app.fault_log = LastN(probe.fault_hist, 20)
           /\ probe.app.status_log = LastN(probe.status_hist, 50)
           /\ probe.last = "tick"
                  => \A i \in 1 .. Len(probe.app.active_faults) :
                         probe.app.active_faults[i][2] < 10

C28_Witness ==
    /\ probe.kind = "logs"
    /\ Len(probe.fault_hist) > 20
    /\ Len(probe.status_hist) > 50
    /\ probe.expired > 0

====
